---- MODULE Spec2Model ----
(***************************************************************************)
(* Model of fill_categories.py: the category tree flattener                *)
(* (generate_slug, parse_categories), the batched upsert                   *)
(* (insert_categories) and the phases of main.                             *)
(*                                                                         *)
(* Python values are modelled as follows.  A str that the code inspects    *)
(* character by character (a name, a slug) is a sequence of one-character  *)
(* strings; an opaque str (an id, an exception name) is a TLA+ string;     *)
(* None is the string "None"; a dict is a function whose DOMAIN is its set *)
(* of keys; a nested dict is a pointer (index) into the tuple `data` of    *)
(* all node dicts, data[1] being the top-level object of the JSON file.    *)
(***************************************************************************)
EXTENDS Integers, Sequences, FiniteSets, TLC

VARIABLES
    data,          \* the node dicts loaded from the JSON file (heap of dicts)
    data_type,     \* type of main's `data`: "None", "dict" or "list"
    stack,         \* call stack of parse_categories frames
    slug_tracker,  \* the dict {(parent_key, base_slug): count} shared by a traversal
    uuid_count,    \* number of uuid.uuid4() calls made so far
    clock,         \* number of datetime.now() calls made so far
    node_of,       \* history: for each uuid generated, the node it was generated for
    categories,    \* main's `categories`: the list returned by parse_categories
    raised,        \* the exception propagating out of the current call, or "None"
    table,         \* committed rows of ecom_categories
    txn,           \* rows as seen inside the connection's open transaction
    sent,          \* number of records of the batch already executed
    ins_pc,        \* position in insert_categories
    calls,         \* history: the table after each completed insert_categories call
    file,          \* the input file on disk: its kind and the tree it holds
    db_up,         \* whether the database accepts connections
    enc_i,         \* index into `encodings` of the next encoding to try
    conn,          \* the database connection: "none", "open" or "closed"
    exit_code,     \* exit status of the process, or "running"
    trace,         \* history: the phases of main started so far
    pc,            \* position in main
    opt_rows,      \* rows of ecom_options as the seeding connection sees them
    val_rows,      \* rows of ecom_option_values as the seeding connection sees them
    opt_committed, \* committed rows of ecom_options
    val_committed, \* committed rows of ecom_option_values
    seed_pc,       \* position in process_categories of seeding.py
    seed_opt,      \* the option `opt` of the AI answer being processed
    seed_id,       \* option_id returned by get_or_create_option
    seed_i,        \* index of the next element of values in insert_option_values
    seed_done      \* number of options taken from the AI answers so far

parseVars == <<stack, slug_tracker, uuid_count, clock, node_of>>

insertVars == <<table, txn, sent, ins_pc, calls>>

mainVars == <<file, db_up, enc_i, conn, exit_code, trace>>

seedVars == <<opt_rows, val_rows, opt_committed, val_committed,
              seed_pc, seed_opt, seed_id, seed_i, seed_done>>

vars == <<data, data_type, parseVars, categories, raised, insertVars, mainVars, pc,
          seedVars>>

None == "None"

----------------------------------------------------------------------------
(* Bounds of the model *)

\* number of nodes of the input tree
MaxNodes == 4

\* number of nodes of the tree in the file that main reads
MainMaxNodes == 2

\* number of records of a batch handed to insert_categories directly
MaxBatch == 3

\* page_size of execute_values (line 116).  The code passes 1000; the model
\* scales it down so that batches of several pages are reachable.
PageSize == 2

\* number of times insert_categories is applied to the same batch
MaxCalls == 2

\* number of options the AI answers of one seeding run hold in total
MaxOptions == 2

\* length of the values list of one option
MaxValues == 2

----------------------------------------------------------------------------
(* Python expression results: a value, or a raised exception *)

Ok(v) == [exc |-> None, val |-> v]

Err(e) == [exc |-> e]

\* d.get(k, default)
DictGetStrict(d, k, default) == IF k \in DOMAIN d THEN Ok(d[k]) ELSE Err("KeyError")

DictGet(d, k, default) == IF k \in DOMAIN d THEN Ok(d[k]) ELSE Ok(default)

\* d[k]
DictItem(d, k) == IF k \in DOMAIN d THEN Ok(d[k]) ELSE Err("KeyError")

\* k in d
DictHas(d, k) == k \in DOMAIN d

EmptyDict == [k \in {} |-> None]

----------------------------------------------------------------------------
(* generate_slug *)

UpperChars == {"M", "S"}

LowerChars == {"m", "e", "n", "s", "h", "o"}

DigitChars == {"0", "1", "2", "3", "4", "5", "6", "7", "8", "9"}

\* \w of a Python 3 str pattern: letters, digits and the underscore
WordChars == UpperChars \cup LowerChars \cup DigitChars \cup {"_"}

\* \s
SpaceChars == {" "}

\* one character of str.lower()
LowerChar(c) == CASE c = "M" -> "m" [] c = "S" -> "s" [] OTHER -> c

\* str.lower()
Lower(s) == [i \in 1..Len(s) |-> LowerChar(s[i])]

\* re.sub(r'[^\w\s-]', '', slug)
RECURSIVE RemoveSpecial(_)
RemoveSpecial(s) ==
    IF s = <<>> THEN <<>>
    ELSE IF Head(s) \in WordChars \cup SpaceChars \cup {"-"}
         THEN <<Head(s)>> \o RemoveSpecial(Tail(s))
         ELSE RemoveSpecial(Tail(s))

IsSep(c) == c \in SpaceChars \cup {"-"}

\* re.sub(r'[-\s]+', '-', slug): every maximal run of hyphens/whitespace
\* becomes one hyphen
RECURSIVE CollapseSeps(_)
CollapseSeps(s) ==
    IF s = <<>> THEN <<>>
    ELSE IF IsSep(Head(s))
         THEN IF Len(s) > 1 /\ IsSep(s[2])
              THEN CollapseSeps(Tail(s))
              ELSE <<"-">> \o CollapseSeps(Tail(s))
         ELSE <<Head(s)>> \o CollapseSeps(Tail(s))

RECURSIVE LStripHyphen(_)
LStripHyphen(s) ==
    IF s # <<>> /\ Head(s) = "-" THEN LStripHyphen(Tail(s)) ELSE s

RECURSIVE RStripHyphen(_)
RStripHyphen(s) ==
    IF s # <<>> /\ s[Len(s)] = "-"
    THEN RStripHyphen(SubSeq(s, 1, Len(s) - 1))
    ELSE s

\* slug.strip('-')
StripHyphen(s) == RStripHyphen(LStripHyphen(s))

generate_slug(name) == StripHyphen(CollapseSeps(RemoveSpecial(Lower(name))))

\* str(n) for an int n >= 0
Digits == <<"0", "1", "2", "3", "4", "5", "6", "7", "8", "9">>

RECURSIVE IntToStr(_)
IntToStr(n) ==
    IF n < 10 THEN <<Digits[n + 1]>>
    ELSE IntToStr(n \div 10) \o <<Digits[(n % 10) + 1]>>

\* f"{base_slug}-{count}"
SuffixedSlug(base_slug, count) == base_slug \o <<"-">> \o IntToStr(count)

----------------------------------------------------------------------------
(* Input trees *)

\* "Men's Shoes"
MensShoes == <<"M", "e", "n", "'", "s", " ", "S", "h", "o", "e", "s">>

\* "mens - shoes 2": its base slug is the base slug of MensShoes with -2 appended
MensShoes2 == <<"m", "e", "n", "s", " ", "-", " ", "s", "h", "o", "e", "s", " ", "2">>

Names == {MensShoes, MensShoes2}

\* The keys id and name of a node.  A node whose id is "root" is given no
\* name: parse_categories returns at line 61 before reading it.
NodeHeads ==
    {("id" :> "root"), ("id" :> "node")}
        \cup {("id" :> "node") @@ ("name" :> nm) : nm \in Names}

RECURSIVE SortedSeq(_)
SortedSeq(S) ==
    IF S = {} THEN <<>>
    ELSE LET m == CHOOSE x \in S : \A y \in S : x <= y
         IN <<m>> \o SortedSeq(S \ {m})

RECURSIVE IsAncestorOrSelf(_, _, _)
\* node a is node b or lies on the path from b to the top-level node 1
IsAncestorOrSelf(p, a, b) ==
    IF a = b THEN TRUE
    ELSE IF b = 1 THEN FALSE
    ELSE IsAncestorOrSelf(p, a, p[b])

\* The shapes of the trees of n nodes, as parent maps.  The nodes are numbered
\* in the order in which their objects open in the JSON text, so the parent of
\* node i is node i-1 or one of its ancestors.
ParentMaps(n) ==
    {p \in [2..n -> 1..n] :
        \A i \in 2..n : p[i] < i /\ IsAncestorOrSelf(p, p[i], i - 1)}

ChildrenOf(p, n, i) == SortedSeq({j \in 2..n : p[j] = i})

\* the childNodes key: the list of children; for a leaf an empty list or no key
NodeTail(kids, keyed) ==
    IF kids # <<>> \/ keyed THEN ("childNodes" :> kids) ELSE EmptyDict

\* which leaves carry an empty childNodes list: none, all, or every second node
KeyedPatterns(n) ==
    {[i \in 1..n |-> FALSE], [i \in 1..n |-> TRUE], [i \in 1..n |-> i % 2 = 1]}

TreesOfShape(n, p) ==
    LET kids == [i \in 1..n |-> ChildrenOf(p, n, i)]
    IN  { [i \in 1..n |-> heads[i] @@ NodeTail(kids[i], keyed[i])] :
            heads \in [1..n -> NodeHeads], keyed \in KeyedPatterns(n) }

TreesOfSize(n) == UNION {TreesOfShape(n, p) : p \in ParentMaps(n)}

\* the trees of at most max nodes
Trees(max) == UNION {TreesOfSize(n) : n \in 1..max}

----------------------------------------------------------------------------
(* parse_categories *)

\* str(uuid.uuid4()): a value no earlier call returned
NewUuid(k) == "u" \o ToString(k)

Frame(node, parent_id) ==
    [node |-> node, parent_id |-> parent_id, pc |-> "start",
     category_id |-> None, i |-> 1, categories |-> <<>>]

Top == stack[Len(stack)]

SetTop(f) == [stack EXCEPT ![Len(stack)] = f]

\* lines 58-59: the children the root branch iterates over
RootChildren(d) ==
    IF DictHas(d, "childNodes") THEN DictItem(d, "childNodes").val ELSE <<>>

\* lines 84-85: the children the category branch iterates over
NodeChildrenButLast(d) ==
    IF DictHas(d, "childNodes") /\ DictItem(d, "childNodes").val # <<>>
    THEN SubSeq(DictItem(d, "childNodes").val, 1, Len(DictItem(d, "childNodes").val) - 1)
    ELSE <<>>

NodeChildren(d) ==
    IF DictHas(d, "childNodes") /\ DictItem(d, "childNodes").val # <<>>
    THEN DictItem(d, "childNodes").val
    ELSE <<>>

\* line 60: the parent_id a child of the root sentinel is parsed with
RootChildParentKept(f) == f.parent_id

RootChildParent(f) == None

\* line 86: the parent_id a child of a category is parsed with
ChildParentStale(f) == f.parent_id

ChildParent(f) == f.category_id

\* lines 60 and 86: categories.extend(result of the recursive call)
ExtendFront(list, more) == more \o list

Extend(list, more) == list \o more

\* line 69
ParentKey(parent_id, base_slug) ==
    <<IF parent_id # None /\ parent_id # "" THEN parent_id ELSE "root", base_slug>>

\* lines 70-75: the tracker after the update, and the slug
TrackerAfterFromZero(tracker, key) ==
    IF key \in DOMAIN tracker
    THEN [tracker EXCEPT ![key] = @ + 1]
    ELSE (key :> 0) @@ tracker

TrackerAfter(tracker, key) ==
    IF key \in DOMAIN tracker
    THEN [tracker EXCEPT ![key] = @ + 1]
    ELSE (key :> 1) @@ tracker

UniqueSlug(tracker, key) ==
    IF key \in DOMAIN tracker
    THEN SuffixedSlug(key[2], TrackerAfter(tracker, key)[key])
    ELSE key[2]

\* sys.exit(1) in a handler (lines 149, 156, 187, 191, 194, 209, 218), or the
\* interpreter's status for an uncaught exception; 0 when main returns
ExitStatusZero(e) == 0

ExitStatus(e) == IF e = None THEN 0 ELSE 1

\* an exception nobody catches: the frames are unwound and the interpreter
\* exits with status 1
Uncaught(e) ==
    /\ raised' = e
    /\ stack' = <<>>
    /\ pc' = "exit"
    /\ exit_code' = ExitStatus(e)

\* main line 198: categories = parse_categories(data); lines 51-54
ParseCall ==
    /\ pc = "parse"
    /\ pc' = "parsing"
    /\ trace' = Append(trace, "parse")
    /\ stack' = <<Frame(1, None)>>
    /\ slug_tracker' = EmptyDict
    /\ UNCHANGED seedVars
    /\ UNCHANGED <<data, data_type, uuid_count, clock, node_of, categories, raised, insertVars,
                   file, db_up, enc_i, conn, exit_code>>

\* lines 56-58: the node is the root sentinel
ParseRootNode ==
    /\ pc = "parsing" /\ stack # <<>> /\ Top.pc = "start"
    /\ data_type = "dict"
    /\ DictGet(data[Top.node], "id", None).val = "root"
    /\ stack' = SetTop([Top EXCEPT !.pc = "root_loop"])
    /\ UNCHANGED seedVars
    /\ UNCHANGED <<data, data_type, slug_tracker, uuid_count, clock, node_of, categories, raised,
                   insertVars, mainVars, pc>>

\* lines 63-81: the node is a category
ParseCategoryNode ==
    /\ pc = "parsing" /\ stack # <<>> /\ Top.pc = "start"
    /\ data_type = "dict"
    /\ DictGet(data[Top.node], "id", None).val # "root"
    /\ LET d == data[Top.node]
           category_id == NewUuid(uuid_count + 1)
           name == DictGet(d, "name", <<>>)
       IN  IF name.exc # None
           THEN /\ Uncaught(name.exc)
                /\ uuid_count' = uuid_count + 1
                /\ node_of' = (category_id :> Top.node) @@ node_of
                /\ UNCHANGED <<slug_tracker, clock>>
           ELSE LET base_slug == generate_slug(name.val)
                    parent_key == ParentKey(Top.parent_id, base_slug)
                    rec == [id |-> category_id,
                            parent_id |-> Top.parent_id,
                            name |-> name.val,
                            slug |-> UniqueSlug(slug_tracker, parent_key),
                            is_active |-> TRUE,
                            updated_at |-> clock + 1]
                IN  /\ slug_tracker' = TrackerAfter(slug_tracker, parent_key)
                    /\ uuid_count' = uuid_count + 1
                    /\ node_of' = (category_id :> Top.node) @@ node_of
                    /\ clock' = clock + 1
                    /\ stack' = SetTop([Top EXCEPT
                                          !.pc = "loop",
                                          !.category_id = category_id,
                                          !.categories = Append(@, rec)])
                    /\ UNCHANGED <<raised, pc, exit_code>>
    /\ UNCHANGED seedVars
    /\ UNCHANGED <<data, data_type, categories, insertVars, file, db_up, enc_i, conn, trace>>

\* lines 59-60: parse_categories(child, None, slug_tracker)
RootCallChild ==
    /\ pc = "parsing" /\ stack # <<>> /\ Top.pc = "root_loop"
    /\ Top.i <= Len(RootChildren(data[Top.node]))
    /\ stack' = Append(SetTop([Top EXCEPT !.i = @ + 1]),
                       Frame(RootChildren(data[Top.node])[Top.i], RootChildParent(Top)))
    /\ UNCHANGED seedVars
    /\ UNCHANGED <<data, data_type, slug_tracker, uuid_count, clock, node_of, categories, raised,
                   insertVars, mainVars, pc>>

\* lines 85-86: parse_categories(child, category_id, slug_tracker)
NodeCallChild ==
    /\ pc = "parsing" /\ stack # <<>> /\ Top.pc = "loop"
    /\ Top.i <= Len(NodeChildren(data[Top.node]))
    /\ stack' = Append(SetTop([Top EXCEPT !.i = @ + 1]),
                       Frame(NodeChildren(data[Top.node])[Top.i], ChildParent(Top)))
    /\ UNCHANGED seedVars
    /\ UNCHANGED <<data, data_type, slug_tracker, uuid_count, clock, node_of, categories, raised,
                   insertVars, mainVars, pc>>

\* the loop of the frame on top is over
LoopDone ==
    \/ Top.pc = "root_loop" /\ Top.i > Len(RootChildren(data[Top.node]))
    \/ Top.pc = "loop" /\ Top.i > Len(NodeChildren(data[Top.node]))

\* lines 61 and 88 in a recursive call: the caller extends its list (60, 86)
ParseReturn ==
    /\ pc = "parsing" /\ Len(stack) > 1 /\ LoopDone
    /\ LET caller == stack[Len(stack) - 1]
       IN  stack' = Append(SubSeq(stack, 1, Len(stack) - 2),
                           [caller EXCEPT !.categories = Extend(@, Top.categories)])
    /\ UNCHANGED seedVars
    /\ UNCHANGED <<data, data_type, slug_tracker, uuid_count, clock, node_of, categories, raised,
                   insertVars, mainVars, pc>>

\* lines 61 and 88 in the top-level call: main line 198 binds the result
ParseDone ==
    /\ pc = "parsing" /\ Len(stack) = 1 /\ LoopDone
    /\ categories' = Top.categories
    /\ stack' = <<>>
    /\ pc' = "connect"
    /\ UNCHANGED seedVars
    /\ UNCHANGED <<data, data_type, slug_tracker, uuid_count, clock, node_of, raised,
                   insertVars, mainVars>>

ParseNext ==
    \/ ParseCall
    \/ ParseRootNode
    \/ ParseCategoryNode
    \/ RootCallChild
    \/ NodeCallChild
    \/ ParseReturn
    \/ ParseDone

----------------------------------------------------------------------------
(* insert_categories *)

\* one row of the statement: INSERT ... ON CONFLICT (id) DO UPDATE SET the
\* five other columns from EXCLUDED (lines 98-107)
UpsertRowDoNothing(rows, r) ==
    IF \E x \in rows : x.id = r.id THEN rows ELSE rows \cup {r}

UpsertRow(rows, r) ==
    IF \E x \in rows : x.id = r.id
    THEN {IF x.id = r.id
          THEN [x EXCEPT !.parent_id = r.parent_id,
                         !.name = r.name,
                         !.slug = r.slug,
                         !.is_active = r.is_active,
                         !.updated_at = r.updated_at]
          ELSE x : x \in rows}
    ELSE rows \cup {r}

RECURSIVE UpsertAll(_, _)
UpsertAll(rows, recs) ==
    IF recs = <<>> THEN rows ELSE UpsertAll(UpsertRow(rows, Head(recs)), Tail(recs))

\* the next page execute_values sends: at most page_size records
Page == SubSeq(categories, sent + 1,
               IF sent + PageSize < Len(categories) THEN sent + PageSize
               ELSE Len(categories))

\* PostgreSQL rejects a statement whose ON CONFLICT DO UPDATE would touch one
\* row twice
PageHasRepeatedId == \E i, j \in DOMAIN Page : i # j /\ Page[i].id = Page[j].id

\* what other sessions see after a statement of an open transaction: the
\* connection of line 204 is not in autocommit mode
VisibleAfterStatementAutocommit(committed, working) == working

VisibleAfterStatement(committed, working) == committed

CurrentCall == calls[Len(calls)]

SetCurrentCall(c) == [calls EXCEPT ![Len(calls)] = c]

\* main line 214: insert_categories(conn, categories)
InsertCall ==
    /\ pc = "insert"
    /\ pc' = "inserting"
    /\ trace' = Append(trace, "insert")
    /\ ins_pc' = "cursor"
    /\ sent' = 0
    /\ calls' = Append(calls, [before |-> table, after |-> table, outcome |-> "running",
                               failed_at |-> None, rolled_back |-> FALSE,
                               committed |-> FALSE, result |-> 0])
    /\ UNCHANGED seedVars
    /\ UNCHANGED <<data, data_type, parseVars, categories, raised, table, txn,
                   file, db_up, enc_i, conn, exit_code>>

\* line 95: cursor = connection.cursor()
CursorOpen ==
    /\ pc = "inserting" /\ ins_pc = "cursor"
    /\ ins_pc' = "execute"
    /\ txn' = table
    /\ UNCHANGED seedVars
    /\ UNCHANGED <<data, data_type, parseVars, categories, raised, table, sent, calls,
                   mainVars, pc>>

\* line 95 raises: outside the try, the exception leaves insert_categories
CursorFails ==
    /\ pc = "inserting" /\ ins_pc = "cursor"
    /\ ins_pc' = "idle"
    /\ raised' = "InterfaceError"
    /\ calls' = SetCurrentCall([CurrentCall EXCEPT !.outcome = "raised",
                                                  !.failed_at = "cursor"])
    /\ pc' = "after_insert"
    /\ UNCHANGED seedVars
    /\ UNCHANGED <<data, data_type, parseVars, categories, table, txn, sent, mainVars>>

\* lines 111-117: execute_values executes the statement of the next page
ExecutePage ==
    /\ pc = "inserting" /\ ins_pc = "execute"
    /\ sent < Len(categories)
    /\ ~PageHasRepeatedId
    /\ txn' = UpsertAll(txn, Page)
    /\ table' = VisibleAfterStatement(table, UpsertAll(txn, Page))
    /\ sent' = sent + Len(Page)
    /\ UNCHANGED seedVars
    /\ UNCHANGED <<data, data_type, parseVars, categories, raised, ins_pc, calls,
                   mainVars, pc>>

\* lines 111-117: the statement of the next page fails (a repeated id, a
\* constraint, a lost connection): the statement changes nothing
ExecutePageFails ==
    /\ pc = "inserting" /\ ins_pc = "execute"
    /\ sent < Len(categories)
    /\ ins_pc' = "except"
    /\ raised' = "DatabaseError"
    /\ calls' = SetCurrentCall([CurrentCall EXCEPT !.failed_at = "execute"])
    /\ UNCHANGED seedVars
    /\ UNCHANGED <<data, data_type, parseVars, categories, table, txn, sent,
                   mainVars, pc>>

\* lines 118-120: connection.commit() and the return value
Commit ==
    /\ pc = "inserting" /\ ins_pc = "execute"
    /\ sent = Len(categories)
    /\ table' = txn
    /\ ins_pc' = "finally"
    /\ calls' = SetCurrentCall([CurrentCall EXCEPT !.committed = TRUE,
                                                  !.result = Len(categories)])
    /\ UNCHANGED seedVars
    /\ UNCHANGED <<data, data_type, parseVars, categories, raised, txn, sent,
                   mainVars, pc>>

\* line 118 raises: the server rejected the commit and applied nothing
CommitFails ==
    /\ pc = "inserting" /\ ins_pc = "execute"
    /\ sent = Len(categories)
    /\ ins_pc' = "except"
    /\ raised' = "DatabaseError"
    /\ calls' = SetCurrentCall([CurrentCall EXCEPT !.failed_at = "commit"])
    /\ UNCHANGED seedVars
    /\ UNCHANGED <<data, data_type, parseVars, categories, table, txn, sent,
                   mainVars, pc>>

\* lines 121-124: connection.rollback(); raise
Rollback ==
    /\ pc = "inserting" /\ ins_pc = "except"
    /\ txn' = table
    /\ ins_pc' = "finally"
    /\ calls' = SetCurrentCall([CurrentCall EXCEPT !.rolled_back = TRUE])
    /\ UNCHANGED seedVars
    /\ UNCHANGED <<data, data_type, parseVars, categories, raised, table, sent,
                   mainVars, pc>>

\* lines 125-126: cursor.close(), then the return or the re-raise reaches main
CursorClose ==
    /\ pc = "inserting" /\ ins_pc = "finally"
    /\ ins_pc' = "idle"
    /\ calls' = SetCurrentCall([CurrentCall EXCEPT
                                   !.outcome = IF raised = None THEN "returned" ELSE "raised",
                                   !.after = table])
    /\ pc' = "after_insert"
    /\ UNCHANGED seedVars
    /\ UNCHANGED <<data, data_type, parseVars, categories, raised, table, txn, sent,
                   mainVars>>

InsertNext ==
    \/ InsertCall
    \/ CursorOpen
    \/ CursorFails
    \/ ExecutePage
    \/ ExecutePageFails
    \/ Commit
    \/ CommitFails
    \/ Rollback
    \/ CursorClose

\* a caller that catches the exception, if any, and applies insert_categories
\* to the same list again
InsertAgain ==
    /\ pc = "after_insert"
    /\ Len(calls) < MaxCalls
    /\ pc' = "insert"
    /\ raised' = None
    /\ UNCHANGED seedVars
    /\ UNCHANGED <<data, data_type, parseVars, categories, insertVars, mainVars>>

----------------------------------------------------------------------------
(* main *)

\* line 159: encodings = ['utf-8-sig', 'utf-8', 'latin-1']
encodings == <<"utf-8-sig", "utf-8", "latin-1">>

\* What lines 165-169 do with a file of each kind under an encoding: the kinds
\* are classes of byte contents.  latin-1 decodes every byte string; bytes that
\* are not valid UTF-8 fail under both UTF-8 codecs.
ReadOutcome(kind, encoding) ==
    CASE kind = "blank" -> "blank"
      [] kind \in {"utf8_json", "json_null", "json_list"} -> "loaded"
      [] kind = "utf8_garbage" -> "JSONDecodeError"
      [] kind = "latin1_json" ->
            IF encoding = "latin-1" THEN "loaded" ELSE "UnicodeDecodeError"
      [] kind = "latin1_garbage" ->
            IF encoding = "latin-1" THEN "JSONDecodeError" ELSE "UnicodeDecodeError"

\* the type of the value json.loads returns for a file of the kind
LoadedType(kind) ==
    CASE kind = "json_null" -> None
      [] kind = "json_list" -> "list"
      [] OTHER -> "dict"

\* sys.exit(1): SystemExit is not an Exception, no handler of main catches it
SysExit ==
    /\ pc' = "exit"
    /\ exit_code' = ExitStatus("SystemExit")

\* lines 144-149: the file does not exist
ReadMissing ==
    /\ pc = "start"
    /\ file.kind = "missing"
    /\ trace' = Append(trace, "read")
    /\ SysExit
    /\ UNCHANGED seedVars
    /\ UNCHANGED <<data, data_type, parseVars, categories, raised, insertVars,
                   file, db_up, enc_i, conn>>

\* lines 151-156: the file has size 0
ReadEmpty ==
    /\ pc = "start"
    /\ file.kind = "empty"
    /\ trace' = Append(trace, "read")
    /\ SysExit
    /\ UNCHANGED seedVars
    /\ UNCHANGED <<data, data_type, parseVars, categories, raised, insertVars,
                   file, db_up, enc_i, conn>>

\* lines 147-161: the file exists and is not empty
ReadBegin ==
    /\ pc = "start"
    /\ file.kind \notin {"missing", "empty"}
    /\ trace' = Append(trace, "read")
    /\ pc' = "decode"
    /\ enc_i' = 1
    /\ data_type' = None
    /\ UNCHANGED seedVars
    /\ UNCHANGED <<data, parseVars, categories, raised, insertVars,
                   file, db_up, conn, exit_code>>

\* lines 163-171: the encoding decodes the file and json.loads succeeds; break
TryEncodingLoads ==
    /\ pc = "decode" /\ enc_i <= Len(encodings)
    /\ ReadOutcome(file.kind, encodings[enc_i]) = "loaded"
    /\ data' = file.tree
    /\ data_type' = LoadedType(file.kind)
    /\ pc' = "loaded"
    /\ UNCHANGED seedVars
    /\ UNCHANGED <<parseVars, categories, raised, insertVars, mainVars>>

\* lines 172-174: UnicodeDecodeError or JSONDecodeError; continue
TryEncodingFails ==
    /\ pc = "decode" /\ enc_i <= Len(encodings)
    /\ ReadOutcome(file.kind, encodings[enc_i]) \in {"UnicodeDecodeError", "JSONDecodeError"}
    /\ enc_i' = enc_i + 1
    /\ UNCHANGED seedVars
    /\ UNCHANGED <<data, data_type, parseVars, categories, raised, insertVars,
                   file, db_up, conn, exit_code, trace, pc>>

\* lines 167-168 and 192-194: the ValueError of a blank content is caught by
\* the outer handler only
TryEncodingBlank ==
    /\ pc = "decode" /\ enc_i <= Len(encodings)
    /\ ReadOutcome(file.kind, encodings[enc_i]) = "blank"
    /\ SysExit
    /\ UNCHANGED seedVars
    /\ UNCHANGED <<data, data_type, parseVars, categories, raised, insertVars,
                   file, db_up, enc_i, conn, trace>>

\* the loop of line 163 is over without a break
LoopExhausted ==
    /\ pc = "decode" /\ enc_i > Len(encodings)
    /\ pc' = "loaded"
    /\ UNCHANGED seedVars
    /\ UNCHANGED <<data, data_type, parseVars, categories, raised, insertVars, mainVars>>

\* lines 176-187: data is None
NoData ==
    /\ pc = "loaded"
    /\ data_type = None
    /\ SysExit
    /\ UNCHANGED seedVars
    /\ UNCHANGED <<data, data_type, parseVars, categories, raised, insertVars,
                   file, db_up, enc_i, conn, trace>>

\* line 176: data is not None
HaveData ==
    /\ pc = "loaded"
    /\ data_type # None
    /\ pc' = "parse"
    /\ UNCHANGED seedVars
    /\ UNCHANGED <<data, data_type, parseVars, categories, raised, insertVars, mainVars>>

\* line 57 on a top-level JSON value that is no object: a list has no get
ParseNotDict ==
    /\ pc = "parsing" /\ stack # <<>> /\ Top.pc = "start"
    /\ data_type # "dict"
    /\ Uncaught("AttributeError")
    /\ UNCHANGED seedVars
    /\ UNCHANGED <<data, data_type, slug_tracker, uuid_count, clock, node_of, categories,
                   insertVars, file, db_up, enc_i, conn, trace>>

\* lines 203-205: psycopg2.connect succeeds
Connect ==
    /\ pc = "connect"
    /\ db_up
    /\ trace' = Append(trace, "connect")
    /\ conn' = "open"
    /\ pc' = "insert"
    /\ UNCHANGED seedVars
    /\ UNCHANGED <<data, data_type, parseVars, categories, raised, insertVars,
                   file, db_up, enc_i, exit_code>>

\* lines 206-209: psycopg2.connect raises
ConnectFails ==
    /\ pc = "connect"
    /\ ~db_up
    /\ trace' = Append(trace, "connect")
    /\ SysExit
    /\ UNCHANGED seedVars
    /\ UNCHANGED <<data, data_type, parseVars, categories, raised, insertVars,
                   file, db_up, enc_i, conn>>

\* lines 216-218: the handler of the insert; sys.exit(1) is pending while the
\* finally clause runs
InsertFailed ==
    /\ pc = "after_insert"
    /\ raised # None
    /\ raised' = "SystemExit"
    /\ pc' = "finally"
    /\ UNCHANGED seedVars
    /\ UNCHANGED <<data, data_type, parseVars, categories, insertVars, mainVars>>

\* line 215: the insert returned
InsertReturned ==
    /\ pc = "after_insert"
    /\ raised = None
    /\ pc' = "finally"
    /\ UNCHANGED seedVars
    /\ UNCHANGED <<data, data_type, parseVars, categories, raised, insertVars, mainVars>>

\* lines 219-221: conn.close()
CloseConnection ==
    /\ pc = "finally"
    /\ conn' = "closed"
    /\ pc' = "closed"
    /\ UNCHANGED seedVars
    /\ UNCHANGED <<data, data_type, parseVars, categories, raised, insertVars,
                   file, db_up, enc_i, exit_code, trace>>

\* the pending SystemExit ends the process, or main returns and the process
\* ends normally
ProcessExit ==
    /\ pc = "closed"
    /\ pc' = "exit"
    /\ exit_code' = ExitStatus(raised)
    /\ UNCHANGED seedVars
    /\ UNCHANGED <<data, data_type, parseVars, categories, raised, insertVars,
                   file, db_up, enc_i, conn, trace>>

MainNext ==
    \/ ReadMissing
    \/ ReadEmpty
    \/ ReadBegin
    \/ TryEncodingLoads
    \/ TryEncodingFails
    \/ TryEncodingBlank
    \/ LoopExhausted
    \/ NoData
    \/ HaveData
    \/ ParseNotDict
    \/ ParseNext
    \/ Connect
    \/ ConnectFails
    \/ InsertNext
    \/ InsertFailed
    \/ InsertReturned
    \/ CloseConnection
    \/ ProcessExit

----------------------------------------------------------------------------
(* Specifications *)

InitParseVars ==
    /\ stack = <<>>
    /\ slug_tracker = EmptyDict
    /\ uuid_count = 0
    /\ clock = 0
    /\ node_of = EmptyDict

\* seeding.py is not running
InitSeedVars ==
    /\ opt_rows = {}
    /\ val_rows = {}
    /\ opt_committed = {}
    /\ val_committed = {}
    /\ seed_pc = "idle"
    /\ seed_opt = [code |-> None, name |-> None, values |-> <<>>]
    /\ seed_id = None
    /\ seed_i = 1
    /\ seed_done = 0

InitInsertVars ==
    /\ txn = table
    /\ sent = 0
    /\ ins_pc = "idle"
    /\ calls = <<>>

\* parse_categories applied to every bounded tree
Init ==
    /\ data \in Trees(MaxNodes)
    /\ data_type = "dict"
    /\ InitParseVars
    /\ categories = <<>>
    /\ raised = None
    /\ table = {}
    /\ InitInsertVars
    /\ InitSeedVars
    /\ file = [kind |-> "utf8_json", tree |-> data]
    /\ db_up = TRUE
    /\ enc_i = 1
    /\ conn = "none"
    /\ exit_code = -1
    /\ trace = <<"read">>
    /\ pc = "parse"

Next == ParseNext

Spec == Init /\ [][Next]_vars

\* rows that were in the table before the run
OldRow(u) ==
    [id |-> u, parent_id |-> "u0", name |-> <<"o">>, slug |-> <<"o">>,
     is_active |-> FALSE, updated_at |-> 0]

\* records as parse_categories makes them, in two versions per id
NewRecord(u, v) ==
    [id |-> u,
     parent_id |-> IF v = 1 THEN None ELSE "u3",
     name |-> IF v = 1 THEN MensShoes ELSE MensShoes2,
     slug |-> generate_slug(IF v = 1 THEN MensShoes ELSE MensShoes2),
     is_active |-> TRUE,
     updated_at |-> v]

Tables == SUBSET {OldRow(u) : u \in {"u1", "u2", "u3"}}

NewRecords == {NewRecord(u, v) : u \in {"u1", "u2"}, v \in {1, 2}}

Batches == UNION {[1..n -> NewRecords] : n \in 0..MaxBatch}

\* insert_categories applied MaxCalls times to every bounded batch and table
InitInsert ==
    /\ data = <<>>
    /\ data_type = None
    /\ InitParseVars
    /\ categories \in Batches
    /\ raised = None
    /\ table \in Tables
    /\ InitInsertVars
    /\ InitSeedVars
    /\ file = [kind |-> "utf8_json", tree |-> <<>>]
    /\ db_up = TRUE
    /\ enc_i = 1
    /\ conn = "open"
    /\ exit_code = -1
    /\ trace = <<"read", "parse", "connect">>
    /\ pc = "insert"

NextInsert == InsertNext \/ InsertAgain

SpecInsert == InitInsert /\ [][NextInsert]_vars

FileKinds ==
    {"missing", "empty", "blank", "utf8_json", "utf8_garbage", "latin1_json",
     "latin1_garbage", "json_null", "json_list"}

MainTrees == Trees(MainMaxNodes)

Files ==
    {[kind |-> k, tree |-> <<>>] : k \in FileKinds \ {"utf8_json", "latin1_json"}}
        \cup {[kind |-> k, tree |-> t] : k \in {"utf8_json", "latin1_json"}, t \in MainTrees}

\* one run of the script on every bounded file, database and table
InitMain ==
    /\ data = <<>>
    /\ data_type = None
    /\ InitParseVars
    /\ categories = <<>>
    /\ raised = None
    /\ table \in SUBSET {OldRow("u0")}
    /\ InitInsertVars
    /\ InitSeedVars
    /\ file \in Files
    /\ db_up \in BOOLEAN
    /\ enc_i = 1
    /\ conn = "none"
    /\ exit_code = -1
    /\ trace = <<>>
    /\ pc = "start"

SpecMain == InitMain /\ [][MainNext]_vars

----------------------------------------------------------------------------
(* seeding.py: get_or_create_option, insert_option_values and the loop of  *)
(* process_categories that calls them on one connection                    *)

\* line 98: SELECT id FROM ecom_options WHERE code = %s
OptionsWithCode(rows, code) == {r \in rows : r.code = code}

\* lines 122-127: SELECT 1 FROM ecom_option_values WHERE option_id = %s AND
\* value = %s, and cur.fetchone() as a truth value
ValueExistsNever(rows, option_id, value) == FALSE

ValueExists(rows, option_id, value) ==
    \E r \in rows : r.option_id = option_id /\ r.value = value

\* lines 105-115: the row the INSERT adds to ecom_options
NewOptionRow(option_id, code, name, now) ==
    [id |-> option_id, code |-> code, name |-> name,
     description |-> name \o " option", is_active |-> TRUE,
     created_at |-> now + 1, updated_at |-> now + 2]

\* lines 130-138: the row the INSERT adds to ecom_option_values
NewValueRow(id, option_id, value, position) ==
    [id |-> id, option_id |-> option_id, value |-> value, position |-> position]

\* lines 149-151: the next opt of an AI answer
SeedNextOption(opt) ==
    /\ seed_pc = "loop"
    /\ seed_done < MaxOptions
    /\ seed_opt' = opt
    /\ seed_done' = seed_done + 1
    /\ seed_pc' = "get_or_create"
    /\ UNCHANGED <<opt_rows, val_rows, opt_committed, val_committed, seed_id, seed_i>>
    /\ UNCHANGED <<data, data_type, parseVars, categories, raised, insertVars, mainVars, pc>>

\* lines 97-102: the code is present; return row[0]
OptionFound ==
    /\ seed_pc = "get_or_create"
    /\ \E r \in OptionsWithCode(opt_rows, seed_opt.code) : seed_id' = r.id
    /\ seed_i' = 1
    /\ seed_pc' = "values"
    /\ UNCHANGED <<opt_rows, val_rows, opt_committed, val_committed, seed_opt, seed_done>>
    /\ UNCHANGED <<data, data_type, parseVars, categories, raised, insertVars, mainVars, pc>>

\* lines 97-116: the code is absent; insert a row and return its new id
OptionCreate ==
    /\ seed_pc = "get_or_create"
    /\ OptionsWithCode(opt_rows, seed_opt.code) = {}
    /\ opt_rows' = opt_rows \cup
           {NewOptionRow(NewUuid(uuid_count + 1), seed_opt.code, seed_opt.name, clock)}
    /\ seed_id' = NewUuid(uuid_count + 1)
    /\ uuid_count' = uuid_count + 1
    /\ clock' = clock + 2
    /\ seed_i' = 1
    /\ seed_pc' = "values"
    /\ UNCHANGED <<val_rows, opt_committed, val_committed, seed_opt, seed_done>>
    /\ UNCHANGED <<data, data_type, stack, slug_tracker, node_of, categories, raised,
                   insertVars, mainVars, pc>>

\* lines 121-128: the (option_id, value) pair is present; continue
ValueSkip ==
    /\ seed_pc = "values"
    /\ seed_i <= Len(seed_opt.values)
    /\ ValueExists(val_rows, seed_id, seed_opt.values[seed_i])
    /\ seed_i' = seed_i + 1
    /\ UNCHANGED <<opt_rows, val_rows, opt_committed, val_committed,
                   seed_pc, seed_opt, seed_id, seed_done>>
    /\ UNCHANGED <<data, data_type, parseVars, categories, raised, insertVars, mainVars, pc>>

\* lines 121-138: the pair is absent; insert it at its position in the list
ValueInsert ==
    /\ seed_pc = "values"
    /\ seed_i <= Len(seed_opt.values)
    /\ ~ValueExists(val_rows, seed_id, seed_opt.values[seed_i])
    /\ val_rows' = val_rows \cup
           {NewValueRow(NewUuid(uuid_count + 1), seed_id, seed_opt.values[seed_i], seed_i)}
    /\ uuid_count' = uuid_count + 1
    /\ seed_i' = seed_i + 1
    /\ UNCHANGED <<opt_rows, opt_committed, val_committed,
                   seed_pc, seed_opt, seed_id, seed_done>>
    /\ UNCHANGED <<data, data_type, stack, slug_tracker, clock, node_of, categories, raised,
                   insertVars, mainVars, pc>>

\* line 121: the values are exhausted; insert_option_values returns
ValuesDone ==
    /\ seed_pc = "values"
    /\ seed_i > Len(seed_opt.values)
    /\ seed_pc' = "loop"
    /\ UNCHANGED <<opt_rows, val_rows, opt_committed, val_committed,
                   seed_opt, seed_id, seed_i, seed_done>>
    /\ UNCHANGED <<data, data_type, parseVars, categories, raised, insertVars, mainVars, pc>>

\* line 159: the categories and their options are exhausted; conn.commit()
SeedCommit ==
    /\ seed_pc = "loop"
    /\ opt_committed' = opt_rows
    /\ val_committed' = val_rows
    /\ seed_pc' = "finally"
    /\ UNCHANGED <<opt_rows, val_rows, seed_opt, seed_id, seed_i, seed_done>>
    /\ UNCHANGED <<data, data_type, parseVars, categories, raised, insertVars, mainVars, pc>>

\* lines 149 and 162-164: generate_variants_from_ai raises (or the answer lacks
\* a key); conn.rollback() and re-raise
SeedFails ==
    /\ seed_pc = "loop"
    /\ opt_rows' = opt_committed
    /\ val_rows' = val_committed
    /\ raised' = "ValueError"
    /\ seed_pc' = "finally"
    /\ UNCHANGED <<opt_committed, val_committed, seed_opt, seed_id, seed_i, seed_done>>
    /\ UNCHANGED <<data, data_type, parseVars, categories, insertVars, mainVars, pc>>

\* lines 165-166: conn.close()
SeedClose ==
    /\ seed_pc = "finally"
    /\ seed_pc' = "closed"
    /\ UNCHANGED <<opt_rows, val_rows, opt_committed, val_committed,
                   seed_opt, seed_id, seed_i, seed_done>>
    /\ UNCHANGED <<data, data_type, parseVars, categories, raised, insertVars, mainVars, pc>>

\* the codes, names and values an AI answer is drawn from
AiCodes == {"color", "size"}

AiNames == {"Color", "Colour"}

AiValues == {"red", "blue"}

AiOptions ==
    {[code |-> c, name |-> nm, values |-> vs] :
        c \in AiCodes, nm \in AiNames,
        vs \in UNION {[1..n -> AiValues] : n \in 0..MaxValues}}

\* rows that were in the two tables before the run: no code twice, no
\* (option_id, value) pair twice
OldOptionRow ==
    [id |-> "o1", code |-> "color", name |-> "Shade", description |-> "Shade option",
     is_active |-> FALSE, created_at |-> 0, updated_at |-> 0]

OldValueRow == [id |-> "v1", option_id |-> "o1", value |-> "red", position |-> 7]

SeedNext ==
    \/ \E opt \in AiOptions : SeedNextOption(opt)
    \/ OptionFound
    \/ OptionCreate
    \/ ValueSkip
    \/ ValueInsert
    \/ ValuesDone
    \/ SeedCommit
    \/ SeedFails
    \/ SeedClose

\* process_categories on every bounded pair of tables and sequence of AI options
InitSeed ==
    /\ data = <<>>
    /\ data_type = None
    /\ InitParseVars
    /\ categories = <<>>
    /\ raised = None
    /\ table = {}
    /\ InitInsertVars
    /\ file = [kind |-> "utf8_json", tree |-> <<>>]
    /\ db_up = TRUE
    /\ enc_i = 1
    /\ conn = "none"
    /\ exit_code = -1
    /\ trace = <<>>
    /\ pc = "seeding"
    /\ opt_committed \in SUBSET {OldOptionRow}
    /\ val_committed \in SUBSET {OldValueRow}
    /\ opt_rows = opt_committed
    /\ val_rows = val_committed
    /\ seed_pc = "loop"
    /\ seed_opt = [code |-> None, name |-> None, values |-> <<>>]
    /\ seed_id = None
    /\ seed_i = 1
    /\ seed_done = 0

SpecSeed == InitSeed /\ [][SeedNext]_vars

----------------------------------------------------------------------------
(* The input tree as the claims speak of it *)

IsRoot(n) == "id" \in DOMAIN data[n] /\ data[n]["id"] = "root"

Kids(n) == IF "childNodes" \in DOMAIN data[n] THEN data[n]["childNodes"] ELSE <<>>

IsLeaf(n) == Kids(n) = <<>>

Range(s) == {s[i] : i \in DOMAIN s}

\* the node whose childNodes holds n; 0 for the top-level node
TreeParent(n) ==
    IF \E m \in DOMAIN data : n \in Range(Kids(m))
    THEN CHOOSE m \in DOMAIN data : n \in Range(Kids(m))
    ELSE 0

RECURSIVE PreOrder(_)
RECURSIVE PreOrderAll(_)
\* the nodes of the subtree of n, parent first, children in input order
PreOrder(n) == <<n>> \o PreOrderAll(Kids(n))

PreOrderAll(ns) ==
    IF ns = <<>> THEN <<>> ELSE PreOrder(Head(ns)) \o PreOrderAll(Tail(ns))

NotRoot(n) == ~IsRoot(n)

\* parse_categories has returned to main
Parsed == pc = "connect"

\* the node the k-th returned record was made for
NodeAt(k) == node_of[categories[k].id]

Positions == 1..Len(categories)

\* the tracker key of the k-th record, from the record's own fields
KeyAt(k) ==
    <<IF categories[k].parent_id = None THEN "root" ELSE categories[k].parent_id,
      generate_slug(categories[k].name)>>

\* how many records up to the k-th have the k-th record's key
OccurrenceAt(k) == Cardinality({j \in 1..k : KeyAt(j) = KeyAt(k)})

mens_shoes == <<"m", "e", "n", "s", "-", "s", "h", "o", "e", "s">>

\* a root sentinel with three children all named "Men's Shoes"
ThreeMensShoes ==
    /\ Len(data) = 4
    /\ IsRoot(1)
    /\ Kids(1) = <<2, 3, 4>>
    /\ \A n \in 2..4 : NotRoot(n) /\ "name" \in DOMAIN data[n] /\ data[n]["name"] = MensShoes

----------------------------------------------------------------------------
(* C1: any two distinct records returned by parse_categories that have the *)
(* same parent_id (None included) have distinct slugs.                     *)
C1_SiblingSlugsDistinct ==
    Parsed =>
        \A j, k \in Positions :
            (j # k /\ categories[j].parent_id = categories[k].parent_id)
                => categories[j].slug # categories[k].slug

(* C2: the number of records returned equals the number of nodes whose id  *)
(* is not "root"; every such node yields exactly one record.               *)
C2_OneRecordPerNonRootNode ==
    Parsed =>
        /\ Len(categories) = Cardinality({n \in DOMAIN data : NotRoot(n)})
        /\ \A n \in DOMAIN data :
              Cardinality({k \in Positions : NodeAt(k) = n}) = IF IsRoot(n) THEN 0 ELSE 1

C2_Witness ==
    /\ Parsed
    /\ Len(data) = 4
    /\ NotRoot(1) /\ IsRoot(2) /\ NotRoot(3) /\ NotRoot(4)
    /\ Kids(1) = <<2>> /\ Kids(2) = <<3>> /\ Kids(3) = <<4>>
    /\ Len(categories) = 3

(* C3: the returned sequence is the pre-order traversal of the input tree  *)
(* (parent first, children in input order) without the root sentinels.     *)
C3_PreOrder ==
    Parsed => [k \in Positions |-> NodeAt(k)] = SelectSeq(PreOrder(1), NotRoot)

C3_Witness ==
    /\ Parsed
    /\ Len(data) = 4
    /\ \A n \in 1..4 : NotRoot(n)
    /\ Kids(1) = <<2, 4>> /\ Kids(2) = <<3>>
    /\ [k \in Positions |-> NodeAt(k)] = <<1, 2, 3, 4>>
    /\ categories[3].parent_id = categories[2].id
    /\ categories[4].parent_id = categories[1].id

(* C4: no record is returned for a node whose id is "root", and the record *)
(* of every direct child of such a node has parent_id None.                *)
C4_RootSentinel ==
    Parsed =>
        \A k \in Positions :
            /\ NotRoot(NodeAt(k))
            /\ (TreeParent(NodeAt(k)) # 0 /\ IsRoot(TreeParent(NodeAt(k))))
                   => categories[k].parent_id = None

C4_Witness ==
    /\ Parsed
    /\ Len(data) = 3
    /\ NotRoot(1) /\ IsRoot(2) /\ NotRoot(3)
    /\ Kids(1) = <<2>> /\ Kids(2) = <<3>>
    /\ Len(categories) = 2
    /\ categories[2].parent_id = None

(* C5: the first record in traversal order with a given (parent_id or      *)
(* 'root', base slug) key has the base slug as its slug, and the k-th one  *)
(* (k >= 2) has the base slug followed by "-" and k; three siblings named  *)
(* "Men's Shoes" get mens-shoes, mens-shoes-2 and mens-shoes-3.            *)
C5_OccurrenceSuffix ==
    Parsed =>
        /\ \A k \in Positions :
              categories[k].slug =
                  IF OccurrenceAt(k) = 1
                  THEN generate_slug(categories[k].name)
                  ELSE generate_slug(categories[k].name)
                           \o <<"-">> \o IntToStr(OccurrenceAt(k))
        /\ ThreeMensShoes =>
              [k \in Positions |-> categories[k].slug]
                  = <<mens_shoes, mens_shoes \o <<"-", "2">>, mens_shoes \o <<"-", "3">>>>

C5_Witness ==
    /\ Parsed
    /\ ThreeMensShoes
    /\ Len(categories) = 3
    /\ categories[3].slug = mens_shoes \o <<"-", "3">>

(* C9: parse_categories raises no error on a tree whose nodes may lack     *)
(* name and may lack childNodes or have it empty; a node without name      *)
(* yields a record with the empty name and the empty base slug; the call   *)
(* on a node without children returns its own record alone, or nothing     *)
(* when its id is "root".                                                  *)
C9_TolerantOfMissingKeys ==
    /\ raised = None
    /\ pc # "exit"
    /\ (pc = "parsing" /\ stack # <<>> /\ LoopDone /\ IsLeaf(Top.node))
           => Len(Top.categories) = IF IsRoot(Top.node) THEN 0 ELSE 1
    /\ Parsed =>
           \A k \in Positions :
               "name" \notin DOMAIN data[NodeAt(k)] =>
                   /\ categories[k].name = <<>>
                   /\ categories[k].slug =
                          IF OccurrenceAt(k) = 1 THEN <<>>
                          ELSE <<"-">> \o IntToStr(OccurrenceAt(k))

C9_Witness ==
    /\ Parsed
    /\ Len(data) = 4
    /\ IsRoot(1)
    /\ Kids(1) = <<2, 3, 4>>
    /\ \A n \in 2..4 : "name" \notin DOMAIN data[n]
    /\ "childNodes" \notin DOMAIN data[2]
    /\ "childNodes" \in DOMAIN data[3]
    /\ [k \in Positions |-> categories[k].slug] = <<<<>>, <<"-", "2">>, <<"-", "3">>>>

(* C10: every record's parent_id is None or the id of exactly one record,  *)
(* which comes earlier and is the record of the node's direct parent;      *)
(* parent_id is None exactly for the top-level node and for the direct     *)
(* children of a root sentinel; all ids are pairwise distinct.             *)
C10_ParentLinks ==
    Parsed =>
        /\ \A k \in Positions :
              /\ categories[k].parent_id = None
                    <=> (NodeAt(k) = 1 \/ IsRoot(TreeParent(NodeAt(k))))
              /\ categories[k].parent_id # None =>
                    /\ Cardinality({j \in Positions :
                                       categories[j].id = categories[k].parent_id}) = 1
                    /\ \E j \in 1..(k - 1) :
                          /\ categories[j].id = categories[k].parent_id
                          /\ NodeAt(j) = TreeParent(NodeAt(k))
        /\ \A j, k \in Positions : j # k => categories[j].id # categories[k].id

C10_Witness ==
    /\ Parsed
    /\ Len(data) = 4
    /\ \A n \in 1..4 : NotRoot(n)
    /\ Kids(1) = <<2, 4>> /\ Kids(2) = <<3>>
    /\ categories[1].parent_id = None
    /\ categories[2].parent_id = categories[1].id
    /\ categories[3].parent_id = categories[2].id
    /\ categories[4].parent_id = categories[1].id

----------------------------------------------------------------------------
(* Claims about insert_categories, checked under SpecInsert *)

BatchIds == {categories[i].id : i \in DOMAIN categories}

\* the last record of the batch with the id
LastRecord(id) ==
    categories[CHOOSE i \in DOMAIN categories :
                   /\ categories[i].id = id
                   /\ \A j \in DOMAIN categories : categories[j].id = id => j <= i]

(* C6: insert_categories is all-or-nothing.  While a call has not          *)
(* committed, the table holds the rows it held before the call; a call     *)
(* whose upsert or commit failed has rolled back, re-raises and leaves the *)
(* table as it was; a call changes the table only by its single commit,    *)
(* made after every record of the batch was executed.                      *)
C6_AllOrNothing ==
    \A i \in DOMAIN calls :
        LET c == calls[i]
        IN  /\ (c.outcome = "running" /\ ~c.committed) => table = c.before
            /\ (c.outcome # "running" /\ c.failed_at \in {"execute", "commit"}) =>
                   /\ c.outcome = "raised"
                   /\ c.rolled_back
                   /\ c.after = c.before
            /\ (i = Len(calls) /\ pc = "after_insert" /\ c.failed_at # None) =>
                   raised # None /\ table = c.before
            /\ c.outcome = "raised" => c.after = c.before /\ ~c.committed
            /\ c.committed =>
                   /\ c.failed_at = None
                   /\ c.result = Len(categories)
                   /\ \A id \in BatchIds : \E x \in table : x.id = id

C6_Witness ==
    /\ pc = "after_insert"
    /\ Len(calls) = 1
    /\ Len(categories) > PageSize
    /\ sent = PageSize
    /\ CurrentCall.failed_at = "execute"
    /\ CurrentCall.rolled_back
    /\ raised # None
    /\ table = CurrentCall.before
    /\ UpsertAll(table, SubSeq(categories, 1, PageSize)) # table

(* C7: a call that returns leaves one row per id, the row of every id of   *)
(* the batch holding the values of the last record with that id, and the   *)
(* rows of other ids as they were; a second call with the same list leaves *)
(* the table as the first left it.                                         *)
C7_UpsertIdempotent ==
    /\ \A i \in DOMAIN calls :
          calls[i].outcome = "returned" =>
              /\ \A x, y \in calls[i].after : x.id = y.id => x = y
              /\ \A id \in BatchIds : LastRecord(id) \in calls[i].after
              /\ {x \in calls[i].after : x.id \notin BatchIds}
                     = {x \in calls[i].before : x.id \notin BatchIds}
    /\ \A i, j \in DOMAIN calls :
          (i < j /\ calls[i].outcome = "returned" /\ calls[j].outcome # "running")
              => calls[j].after = calls[i].after

C7_Witness ==
    /\ pc = "after_insert"
    /\ Len(calls) = 2
    /\ calls[1].outcome = "returned" /\ calls[2].outcome = "returned"
    /\ Len(categories) = 3
    /\ categories[1].id = categories[3].id
    /\ categories[1] # categories[3]
    /\ calls[1].before = {OldRow("u1"), OldRow("u3")}
    /\ categories[2].id # categories[1].id
    /\ calls[2].after = {categories[2], categories[3], OldRow("u3")}

----------------------------------------------------------------------------
(* Claims about main, checked under SpecMain *)

Phases == <<"read", "parse", "connect", "insert">>

BadFile ==
    file.kind \in {"missing", "empty", "blank", "utf8_garbage", "latin1_garbage",
                   "json_null"}

Exited == pc = "exit"

(* C8: the phases of main start in the order read, parse, connect, insert; *)
(* a missing, empty or unparseable file ends the run with status 1 before  *)
(* anything is parsed or connected; a failed parse ends it with status 1   *)
(* before the connection; a failed connection ends it with status 1 before *)
(* any insert; a failed insert ends it with status 1 after the connection  *)
(* is closed; status 0 is the status of the runs whose phases all succeed. *)
C8_PhasesAndExitCodes ==
    /\ Len(trace) <= Len(Phases)
    /\ \A i \in DOMAIN trace : trace[i] = Phases[i]
    /\ Exited <=> exit_code \in {0, 1}
    /\ BadFile =>
          /\ "parse" \notin Range(trace)
          /\ stack = <<>> /\ uuid_count = 0 /\ categories = <<>>
          /\ conn = "none" /\ calls = <<>>
          /\ Exited => exit_code = 1
    /\ file.kind = "json_list" =>
          /\ "connect" \notin Range(trace)
          /\ conn = "none" /\ calls = <<>>
          /\ Exited => exit_code = 1
    /\ ~db_up =>
          /\ "insert" \notin Range(trace)
          /\ conn = "none" /\ calls = <<>> /\ ins_pc = "idle"
          /\ Exited => exit_code = 1
    /\ (Exited /\ calls # <<>> /\ calls[1].outcome = "raised") =>
          exit_code = 1 /\ conn = "closed"
    /\ (Exited /\ "insert" \in Range(trace)) => conn = "closed"
    /\ (Exited /\ exit_code = 0) <=>
          (Exited /\ trace = Phases /\ calls[1].outcome = "returned")

C8_Witness ==
    /\ Exited
    /\ exit_code = 1
    /\ trace = Phases
    /\ calls[1].failed_at = "execute"
    /\ conn = "closed"
    /\ Len(categories) = 2

----------------------------------------------------------------------------
(* Claims about seeding.py, checked under SpecSeed *)

OneRowPerCode(rows) == \A x, y \in rows : x.code = y.code => x = y

OneRowPerPair(rows) ==
    \A x, y \in rows : (x.option_id = y.option_id /\ x.value = y.value) => x = y

\* a step of get_or_create_option or of insert_option_values
InSeedCall == seed_pc \in {"get_or_create", "values"}

(* C11: every step of get_or_create_option and insert_option_values leaves *)
(* ecom_options with at most one row per code and ecom_option_values with  *)
(* at most one row per (option_id, value), also when a value occurs twice  *)
(* in one list; it keeps every row that was there and changes none;        *)
(* get_or_create_option adds one row exactly when the code is absent and   *)
(* returns the id of the row with the code.                                *)
C11_SeedingKeepsRowsUnique ==
    [][ /\ OneRowPerCode(opt_rows') /\ OneRowPerPair(val_rows')
        /\ OneRowPerCode(opt_committed') /\ OneRowPerPair(val_committed')
        /\ InSeedCall =>
              /\ opt_rows \subseteq opt_rows'
              /\ val_rows \subseteq val_rows'
              /\ opt_committed' = opt_committed /\ val_committed' = val_committed
        /\ seed_pc = "get_or_create" =>
              /\ Cardinality(opt_rows') = Cardinality(opt_rows)
                     + (IF OptionsWithCode(opt_rows, seed_opt.code) = {} THEN 1 ELSE 0)
              /\ \E r \in opt_rows' : r.code = seed_opt.code /\ r.id = seed_id'
              /\ val_rows' = val_rows
        /\ seed_pc = "values" => opt_rows' = opt_rows
      ]_vars

C11_Witness ==
    /\ seed_pc = "loop"
    /\ seed_done = 2
    /\ seed_opt.code = "color" /\ seed_opt.name = "Colour"
    /\ seed_opt.values = <<"blue", "blue">>
    /\ opt_rows = {OldOptionRow}
    /\ val_rows = {OldValueRow, NewValueRow("u1", "o1", "blue", 2)}

====
